---- MODULE Spec2Model ----
(***************************************************************************)
(* Model of package pod (src/pod/pod.go): ProcessPodBytes (decode, default *)
(* and structural check of a pod document), RandStr, and UserPod.Validate  *)
(* with its helper keySet.                                                 *)
(*                                                                         *)
(* A Go string is a sequence of one-character strings, so "" is <<>>.      *)
(* An optional JSON member is <<>> when absent and <<v>> when present.     *)
(* A Go error is a record [msg, args]: the format string and the operands  *)
(* handed to fmt.Errorf / errors.New; the nil error is NilError.           *)
(***************************************************************************)
EXTENDS Integers, Sequences, FiniteSets

VARIABLES
    pc,      \* "start" | "decoded" | "loaded" | "validated"
    doc,     \* the JSON document handed to ProcessPodBytes
    pod,     \* the *UserPod in hand (NilPod when none)
    err,     \* the error returned by ProcessPodBytes
    verr     \* the error returned by Validate

vars == <<pc, doc, pod, err, verr>>

\* ---------------------------------------------------------------- bounds
MaxDocContainers == 2   \* containers in a document
MaxDocVolumes == 2      \* top-level volumes in a document
MaxRes == 1             \* resource values range over -MaxRes..MaxRes
MaxItems == 5           \* total entries (containers, catalog entries, mounts, envs) of a pod given to Validate
MaxPermLen == 5         \* length of the permission strings tried

\* ------------------------------------------------------------- constants
ByteRange == 256        \* values of a Go byte
NameSize == 10          \* RandStr(10, "alphanum")
DefaultVcpu == 1
DefaultMemory == 128

\* --------------------------------------------------------------- strings
EmptyStr == <<>>
StrA == <<"a">>
StrB == <<"b">>
Busybox == <<"b", "u", "s", "y", "b", "o", "x">>

\* the three dictionaries of RandStr, as sequences of characters
DictAlphanum ==
    <<"0","1","2","3","4","5","6","7","8","9",
      "a","b","c","d","e","f","g","h","i","j","k","l","m",
      "n","o","p","q","r","s","t","u","v","w","x","y","z">>
DictAlpha ==
    <<"A","B","C","D","E","F","G","H","I","J","K","L","M",
      "N","O","P","Q","R","S","T","U","V","W","X","Y","Z",
      "a","b","c","d","e","f","g","h","i","j","k","l","m",
      "n","o","p","q","r","s","t","u","v","w","x","y","z">>
DictNumber == <<"0","1","2","3","4","5","6","7","8","9">>

\* ---------------------------------------------------------------- errors
NilError == [msg |-> "nil", args |-> <<>>]
Errorf(format, operands) == [msg |-> format, args |-> operands]

DecodeErr == "json: cannot unmarshal"
ImageErr == "Please specific your image for your container, it can not be null!"
NoContainerErr == "Please correct your POD file, the container section can not be null!"
VolumeNameErr == "Hyper ERROR: please specific your volume name, it can not be null!"

VolumesNotUniqueErr == "Volumes name does not unique"
FilesNotUniqueErr == "Files name does not unique"
MountNotUniqueErr == "in container %d, volume source are not unique"
EnvNotUniqueErr == "in container %d, environment name are not unique"
FileMissingErr == "in container %d, file %s does not exist in file list."
PermErr == "in container %d, the permission %s only accept Octal digital in string"
VolumeMissingErr == "in container %d, volume %s does not exist in volume list."

\* ------------------------------------------------------------------ pods
NilPod == [nil |-> TRUE]

\* json.Unmarshal of an optional member: absent leaves the zero value
Member(opt, zero) == IF opt = <<>> THEN zero ELSE opt[1]

\* the documents tried give a container an image or none; ProcessPodBytes reads
\* nothing else of a container
UnmarshalContainer(c) ==
    [Image   |-> Member(c.image, EmptyStr),
     Envs    |-> <<>>,
     Volumes |-> <<>>,
     Files   |-> <<>>]

UnmarshalVolume(v) == [Name |-> Member(v.name, EmptyStr)]

UnmarshalFile(f) == [Name |-> Member(f.name, EmptyStr)]

Unmarshal(d) ==
    [Name       |-> Member(d.id, EmptyStr),
     Containers |-> LET cs == Member(d.containers, <<>>)
                    IN [i \in 1..Len(cs) |-> UnmarshalContainer(cs[i])],
     Resource   |-> LET r == Member(d.resource, [vcpu |-> <<>>, memory |-> <<>>])
                    IN [Vcpu |-> Member(r.vcpu, 0), Memory |-> Member(r.memory, 0)],
     Files      |-> LET fs == Member(d.files, <<>>)
                    IN [i \in 1..Len(fs) |-> UnmarshalFile(fs[i])],
     Volumes    |-> LET vs == Member(d.volumes, <<>>)
                    IN [i \in 1..Len(vs) |-> UnmarshalVolume(vs[i])]]

\* ---------------------------------------------------------------- RandStr
Dictionary(randType) ==
    IF randType = "number" THEN DictNumber
    ELSE IF randType = "alpha" THEN DictAlpha
    ELSE IF randType = "alphanum" THEN DictAlphanum
    ELSE <<>>

\* C1 mutant: the alphabetic dictionary is picked for "alphanum"
RandStrAlpha(bytes, randType) ==
    LET dictionary == Dictionary("alpha")
    IN [k \in 1..Len(bytes) |-> dictionary[(bytes[k] % Len(dictionary)) + 1]]

\* bytes is what rand.Read put in the buffer of strSize bytes
RandStr(bytes, randType) ==
    LET dictionary == Dictionary(randType)
    IN [k \in 1..Len(bytes) |-> dictionary[(bytes[k] % Len(dictionary)) + 1]]

\* the byte streams rand.Read is let to produce: the windows of NameSize
\* consecutive bytes of the ramp 0, 1, 2, ... (mod ByteRange), which between
\* them hold every byte value
RandSource ==
    { [k \in 1..NameSize |-> (w * NameSize + (k - 1)) % ByteRange] :
        w \in 0..((ByteRange - 1) \div NameSize) }

\* -------------------------------------------------------- ProcessPodBytes
DefaultName(p, bytes) ==
    IF p.Name = EmptyStr THEN [p EXCEPT !.Name = RandStr(bytes, "alphanum")] ELSE p

DefaultResource(p) ==
    LET vcpu == IF p.Resource.Vcpu = 0 THEN DefaultVcpu ELSE p.Resource.Vcpu
        memory == IF p.Resource.Memory = 0 THEN DefaultMemory ELSE p.Resource.Memory
    IN [p EXCEPT !.Resource = [Vcpu |-> vcpu, Memory |-> memory]]

\* C2 mutant: the num == 0 test is left out
CheckContainersNoCount(containers) ==
    IF \E i \in 1..Len(containers) : containers[i].Image = EmptyStr
    THEN Errorf(ImageErr, <<>>)
    ELSE NilError

\* the loop over the containers and the test of num after it
CheckContainers(containers) ==
    IF \E i \in 1..Len(containers) : containers[i].Image = EmptyStr
    THEN Errorf(ImageErr, <<>>)
    ELSE IF Len(containers) = 0
    THEN Errorf(NoContainerErr, <<>>)
    ELSE NilError

\* C10 mutant: the loop over the volumes is left out
CheckVolumesSkipped(volumes) == NilError

CheckVolumes(volumes) ==
    IF \E i \in 1..Len(volumes) : volumes[i].Name = EmptyStr
    THEN Errorf(VolumeNameErr, <<>>)
    ELSE NilError

\* the pair (*UserPod, error) returned for document d when rand.Read yields bytes
ProcessPodBytesResult(d, bytes) ==
    IF ~d.wellFormed
    THEN [pod |-> NilPod, err |-> Errorf(DecodeErr, <<>>)]
    ELSE LET userPod == DefaultResource(DefaultName(Unmarshal(d), bytes))
             cerr == CheckContainers(userPod.Containers)
             verror == CheckVolumes(userPod.Volumes)
         IN IF cerr # NilError THEN [pod |-> NilPod, err |-> cerr]
            ELSE IF verror # NilError THEN [pod |-> NilPod, err |-> verror]
            ELSE [pod |-> userPod, err |-> NilError]

\* ----------------------------------------------------------------- keySet
\* the key() methods, applied to every element of a slice
VolumeKeys(volumes) == [i \in 1..Len(volumes) |-> volumes[i].Name]
FileKeys(files) == [i \in 1..Len(files) |-> files[i].Name]
MountKeys(mounts) == [i \in 1..Len(mounts) |-> mounts[i].Volume]
EnvKeys(envs) == [i \in 1..Len(envs) |-> envs[i].Env]

\* the loop of keySet from position i on, iset being the keys seen so far
RECURSIVE keySetLoop(_, _, _)
keySetLoop(tmp, i, iset) ==
    IF i > Len(tmp) THEN [uniq |-> TRUE, iset |-> iset]
    ELSE IF tmp[i] \in iset THEN [uniq |-> FALSE, iset |-> iset]
    ELSE keySetLoop(tmp, i + 1, iset \cup {tmp[i]})

\* C3 mutant: a key seen before is stored again instead of reported
keySetOverwrite(tmp) ==
    [uniq |-> TRUE, iset |-> {tmp[i] : i \in 1..Len(tmp)}]

\* keySet on the keys of a slice whose elements all implement item: Validate
\* hands it only []UserVolume, []UserFile, []UserVolumeReference and
\* []UserEnvironmentVar, so InterfaceSlice never fails and the default branch
\* of the type switch is never taken
keySet(tmp) == keySetLoop(tmp, 1, {})

\* ---------------------------------------------------------------- Validate
OctalDigits == {"0", "1", "2", "3", "4", "5", "6", "7"}

\* regexp.MustCompile("0[0-7]{3}").Match: the pattern is not anchored, so it
\* matches when any four consecutive characters of s fit it
permRegMatch(s) ==
    \E i \in 1..(Len(s) - 3) :
        /\ s[i] = "0"
        /\ \A j \in 1..3 : s[i + j] \in OctalDigits

DefaultPerm == <<"0", "7", "5", "5">>
NoopPerm == <<"0">>

\* C4 mutant: the lookup of f.Filename in fset is left out
RECURSIVE ValidateFilesNoLookup(_, _, _, _)
ValidateFilesNoLookup(files, j, idx, fset) ==
    IF j > Len(files) THEN NilError
    ELSE LET f == files[j]
             perm == IF f.Perm = EmptyStr THEN DefaultPerm ELSE f.Perm
         IN IF perm # NoopPerm /\ ~permRegMatch(perm)
            THEN Errorf(PermErr, <<>>)
            ELSE ValidateFilesNoLookup(files, j + 1, idx, fset)

\* the loop over container.Files from position j on, in container idx
RECURSIVE ValidateFiles(_, _, _, _)
ValidateFiles(files, j, idx, fset) ==
    IF j > Len(files) THEN NilError
    ELSE LET f == files[j]
             perm == IF f.Perm = EmptyStr THEN DefaultPerm ELSE f.Perm
         IN IF f.Filename \notin fset
            THEN Errorf(FileMissingErr, <<idx, f.Filename>>)
            ELSE IF perm # NoopPerm /\ ~permRegMatch(perm)
            THEN Errorf(PermErr, <<>>)
            ELSE ValidateFiles(files, j + 1, idx, fset)

\* C7 mutant: the loop over container.Volumes is left out
ValidateMountsSkipped(mounts, idx, vset) == NilError

\* the loop over container.Volumes, in container idx
ValidateMounts(mounts, idx, vset) ==
    IF \E j \in 1..Len(mounts) : mounts[j].Volume \notin vset
    THEN LET j == CHOOSE k \in 1..Len(mounts) :
                    /\ mounts[k].Volume \notin vset
                    /\ \A l \in 1..(k - 1) : mounts[l].Volume \in vset
         IN Errorf(VolumeMissingErr, <<idx, mounts[j].Volume>>)
    ELSE NilError

\* the loop over pod.Containers from the container at position i (index i - 1) on
RECURSIVE ValidateContainers(_, _, _, _)
ValidateContainers(containers, i, fset, vset) ==
    IF i > Len(containers) THEN NilError
    ELSE LET container == containers[i]
             idx == i - 1
             ferr == ValidateFiles(container.Files, 1, idx, fset)
             merr == ValidateMounts(container.Volumes, idx, vset)
         IN IF ~keySet(MountKeys(container.Volumes)).uniq
            THEN Errorf(MountNotUniqueErr, <<idx>>)
            ELSE IF ~keySet(EnvKeys(container.Envs)).uniq
            THEN Errorf(EnvNotUniqueErr, <<idx>>)
            ELSE IF ferr # NilError THEN ferr
            ELSE IF merr # NilError THEN merr
            ELSE ValidateContainers(containers, i + 1, fset, vset)

Validate(p) ==
    LET v == keySet(VolumeKeys(p.Volumes))
        f == keySet(FileKeys(p.Files))
    IN IF ~v.uniq /\ Cardinality(v.iset) > 0
       THEN Errorf(VolumesNotUniqueErr, <<>>)
       ELSE IF ~f.uniq /\ Cardinality(f.iset) > 0
       THEN Errorf(FilesNotUniqueErr, <<>>)
       ELSE ValidateContainers(p.Containers, 1, f.iset, v.iset)

\* ------------------------------------------------------------------ inputs
SeqN(S, n) == [1..n -> S]
SeqUpTo(S, n) == UNION {SeqN(S, k) : k \in 0..n}
Opt(S) == {<<>>} \cup {<<x>> : x \in S}

\* documents handed to ProcessPodBytes
DocStrings == {EmptyStr, StrA}
DocContainers == [image : Opt({EmptyStr, Busybox})]
DocVolumes == [name : Opt(DocStrings)]
DocResources == [vcpu : Opt(-MaxRes..MaxRes), memory : Opt(-MaxRes..MaxRes)]
WellFormedDocs ==
    [wellFormed : {TRUE},
     id         : Opt(DocStrings),
     containers : Opt(SeqUpTo(DocContainers, MaxDocContainers)),
     resource   : Opt(DocResources),
     files      : {<<>>, <<(<<[name |-> <<StrA>>]>>)>>},
     volumes    : Opt(SeqUpTo(DocVolumes, MaxDocVolumes))]
NoDoc ==
    [wellFormed |-> FALSE, id |-> <<>>, containers |-> <<>>, resource |-> <<>>,
     files |-> <<>>, volumes |-> <<>>]
Docs == WellFormedDocs \cup {NoDoc}

\* records handed to Validate: every pod of at most MaxItems entries in all
Names == {StrA, StrB}
StructPerms == {EmptyStr, <<"7", "5", "5">>, <<"0", "7", "5", "5", "5">>}
Catalog == [Name : Names]
MountRefs == [Volume : Names]
EnvVars == [Env : Names]
FileRefs == [Filename : Names, Perm : StructPerms]

Splits(k) == {ab \in (0..k) \X (0..k) : ab[1] + ab[2] <= k}

ContainersOfSize(k) ==
    UNION { [Image   : {Busybox},
             Envs    : SeqN(EnvVars, ab[2]),
             Volumes : SeqN(MountRefs, ab[1]),
             Files   : SeqN(FileRefs, k - ab[1] - ab[2])] : ab \in Splits(k) }

\* container sequences of exactly t entries, a container counting for one
RECURSIVE ContainerSeqs(_)
ContainerSeqs(t) ==
    IF t = 0 THEN {<<>>}
    ELSE UNION { { <<c>> \o rest : c \in ContainersOfSize(k),
                                   rest \in ContainerSeqs(t - 1 - k) } :
                 k \in 0..(t - 1) }

StructPod(containers, files, volumes) ==
    [Name       |-> StrA,
     Containers |-> containers,
     Resource   |-> [Vcpu |-> DefaultVcpu, Memory |-> DefaultMemory],
     Files      |-> files,
     Volumes    |-> volumes]

\* records with one container mounting the one catalogued file, its perm ranging
\* over every string of at most MaxPermLen characters of PermChars
PermChars == {"0", "1", "5", "7", "9", "x"}
PermStrings == SeqUpTo(PermChars, MaxPermLen)
PermPod(perm) ==
    [Name       |-> StrA,
     Containers |-> << [Image |-> Busybox, Envs |-> <<>>, Volumes |-> <<>>,
                        Files |-> <<[Filename |-> StrA, Perm |-> perm]>>] >>,
     Resource   |-> [Vcpu |-> DefaultVcpu, Memory |-> DefaultMemory],
     Files      |-> <<[Name |-> StrA]>>,
     Volumes    |-> <<>>]

\* ------------------------------------------------------------ state machine
InitDecode ==
    /\ pc = "start"
    /\ doc \in Docs
    /\ pod = NilPod
    /\ err = NilError
    /\ verr = NilError

InitValidate ==
    /\ pc = "loaded"
    /\ doc = NoDoc
    /\ \/ \E ab \in Splits(MaxItems) :
            \E t \in 0..(MaxItems - ab[1] - ab[2]) :
                \E containers \in ContainerSeqs(t),
                   files \in SeqN(Catalog, ab[2]),
                   volumes \in SeqN(Catalog, ab[1]) :
                    pod = StructPod(containers, files, volumes)
       \/ \E perm \in PermStrings : pod = PermPod(perm)
    /\ err = NilError
    /\ verr = NilError

ProcessPodBytes ==
    /\ pc = "start"
    /\ \E bytes \in RandSource :
        LET r == ProcessPodBytesResult(doc, bytes)
        IN /\ pod' = r.pod
           /\ err' = r.err
    /\ pc' = "decoded"
    /\ UNCHANGED <<doc, verr>>

ValidatePod ==
    /\ pc \in {"decoded", "loaded"}
    /\ pod # NilPod
    /\ verr' = Validate(pod)
    /\ pc' = "validated"
    /\ UNCHANGED <<doc, pod, err>>

NextDecode == ProcessPodBytes \/ ValidatePod
NextValidate == ValidatePod

SpecDecode == InitDecode /\ [][NextDecode]_vars
SpecValidate == InitValidate /\ [][NextValidate]_vars

\* ================================================================= claims
\* what the claims say of a document, read off the document itself
DocContainerList(d) == Member(d.containers, <<>>)
DocVolumeList(d) == Member(d.volumes, <<>>)
DocHasImage(c) == c.image # <<>> /\ c.image[1] # EmptyStr
DocHasName(v) == v.name # <<>> /\ v.name[1] # EmptyStr
DocHasId(d) == d.id # <<>> /\ d.id[1] # EmptyStr
DocNoResourceValues(d) ==
    d.resource = <<>> \/ (d.resource[1].vcpu = <<>> /\ d.resource[1].memory = <<>>)
MinimalDoc(d) ==
    /\ d.wellFormed
    /\ Len(DocContainerList(d)) = 1
    /\ DocHasImage(DocContainerList(d)[1])
    /\ DocNoResourceValues(d)
    /\ Member(d.files, <<>>) = <<>>
    /\ DocVolumeList(d) = <<>>
LowerAlnum ==
    {"0","1","2","3","4","5","6","7","8","9",
     "a","b","c","d","e","f","g","h","i","j","k","l","m",
     "n","o","p","q","r","s","t","u","v","w","x","y","z"}
Returned == pc # "start"

\* C1: a minimal well-formed document (one container with an image, no resource
\* values, no files, no volumes) decodes to a record with Vcpu = 1, Memory = 128
\* and, when it has no id, a Name of exactly 10 characters of [0-9a-z]; a
\* non-empty id of the document is the Name unchanged.
C1_MinimalDocument ==
    Returned =>
        /\ MinimalDoc(doc) =>
            /\ err = NilError
            /\ pod # NilPod
            /\ pod.Resource.Vcpu = 1
            /\ pod.Resource.Memory = 128
            /\ ~DocHasId(doc) =>
                /\ Len(pod.Name) = 10
                /\ \A k \in 1..Len(pod.Name) : pod.Name[k] \in LowerAlnum
        /\ (pod # NilPod /\ DocHasId(doc)) => pod.Name = doc.id[1]

C1_Witness ==
    /\ pc = "decoded"
    /\ MinimalDoc(doc)
    /\ doc.id = <<>>
    /\ pod # NilPod
    /\ \E k \in 1..Len(pod.Name) : pod.Name[k] = "z"

\* C2: a well-formed document with no containers is refused with the
\* zero-containers error whatever its other members; a document with a container
\* lacking an image is refused; an error never comes with a record.
C2_StructuralRefusal ==
    Returned =>
        /\ (doc.wellFormed /\ DocContainerList(doc) = <<>>) =>
            (pod = NilPod /\ err = Errorf(NoContainerErr, <<>>))
        /\ (doc.wellFormed /\ \E i \in 1..Len(DocContainerList(doc)) :
                                  ~DocHasImage(DocContainerList(doc)[i])) =>
            (pod = NilPod /\ err # NilError)
        /\ err # NilError => pod = NilPod

C2_Witness ==
    /\ pc = "decoded"
    /\ doc.wellFormed
    /\ doc.containers = <<(<<>>)>>
    /\ DocHasId(doc)
    /\ \E i \in 1..Len(DocVolumeList(doc)) : ~DocHasName(DocVolumeList(doc)[i])
    /\ pod = NilPod
    /\ err.msg = NoContainerErr

\* C6 (as claimed): every record returned has Resource.Vcpu >= 1 and
\* Resource.Memory >= 1, whatever integers the document gives.
C6_ResourceAtLeastOne ==
    (Returned /\ pod # NilPod) =>
        (pod.Resource.Vcpu >= 1 /\ pod.Resource.Memory >= 1)

\* C10: every record returned has a non-empty name on every top-level volume; a
\* well-formed document with containers, all with images, and a volume without a
\* name is refused with an error and no record.
C10_VolumeNames ==
    Returned =>
        /\ pod # NilPod =>
            \A i \in 1..Len(pod.Volumes) : pod.Volumes[i].Name # EmptyStr
        /\ ( /\ doc.wellFormed
             /\ Len(DocContainerList(doc)) >= 1
             /\ \A i \in 1..Len(DocContainerList(doc)) :
                    DocHasImage(DocContainerList(doc)[i])
             /\ \E i \in 1..Len(DocVolumeList(doc)) :
                    ~DocHasName(DocVolumeList(doc)[i]) ) =>
            (pod = NilPod /\ err # NilError)

C10_Witness ==
    /\ pc = "decoded"
    /\ doc.wellFormed
    /\ Len(DocContainerList(doc)) = 2
    /\ \A i \in 1..Len(DocContainerList(doc)) : DocHasImage(DocContainerList(doc)[i])
    /\ Len(DocVolumeList(doc)) = 2
    /\ DocHasName(DocVolumeList(doc)[1])
    /\ DocVolumeList(doc)[2].name = <<>>
    /\ pod = NilPod
    /\ err = Errorf(VolumeNameErr, <<>>)

\* ------------------------------------------------- claims about Validate
\* what the claims say of a record, read off the record itself
Validated == pc = "validated"
Distinct(keys) ==
    \A i, j \in 1..Len(keys) : i # j => keys[i] # keys[j]
VolumeNames(p) == {p.Volumes[i].Name : i \in 1..Len(p.Volumes)}
FileNames(p) == {p.Files[i].Name : i \in 1..Len(p.Files)}
Dangling(p, i, j) == p.Containers[i].Files[j].Filename \notin FileNames(p)
DanglingMount(p, i, j) == p.Containers[i].Volumes[j].Volume \notin VolumeNames(p)

\* a permission string as the specification admits it: unset, the literal "0",
\* or a '0' followed by exactly three octal digits and nothing else
PermAdmitted(perm) ==
    \/ perm = EmptyStr
    \/ perm = <<"0">>
    \/ /\ Len(perm) = 4
       /\ perm[1] = "0"
       /\ \A k \in 2..4 : perm[k] \in {"0", "1", "2", "3", "4", "5", "6", "7"}

FileMountFails(p, i, j) ==
    Dangling(p, i, j) \/ ~PermAdmitted(p.Containers[i].Files[j].Perm)
ContainerFails(p, i) ==
    \/ ~Distinct(MountKeys(p.Containers[i].Volumes))
    \/ ~Distinct(EnvKeys(p.Containers[i].Envs))
    \/ \E j \in 1..Len(p.Containers[i].Files) : FileMountFails(p, i, j)
    \/ \E j \in 1..Len(p.Containers[i].Volumes) : DanglingMount(p, i, j)
\* no check placed before the fileRef check of FileMount j of container i fails
NothingFailsBefore(p, i, j) ==
    /\ Distinct(VolumeKeys(p.Volumes))
    /\ Distinct(FileKeys(p.Files))
    /\ \A h \in 1..(i - 1) : ~ContainerFails(p, h)
    /\ Distinct(MountKeys(p.Containers[i].Volumes))
    /\ Distinct(EnvKeys(p.Containers[i].Envs))
    /\ \A h \in 1..(j - 1) : ~FileMountFails(p, i, h)

\* C3: Validate returns the duplicate-volume-name error when two entries of the
\* Volume catalog share a name, and never returns it when the names are pairwise
\* distinct (the empty catalog included).
C3_DuplicateVolumeName ==
    Validated =>
        IF Distinct(VolumeKeys(pod.Volumes))
        THEN verr.msg # VolumesNotUniqueErr
        ELSE verr = Errorf(VolumesNotUniqueErr, <<>>)

C3_Witness ==
    /\ Validated
    /\ Len(pod.Volumes) = 3
    /\ pod.Volumes[1].Name # pod.Volumes[2].Name
    /\ pod.Volumes[3].Name = pod.Volumes[1].Name
    /\ \E i \in 1..Len(pod.Containers) : ContainerFails(pod, i)
    /\ verr.msg = VolumesNotUniqueErr

C5_PermSyntax ==
    ( /\ Validated
      /\ Distinct(VolumeKeys(pod.Volumes))
      /\ Distinct(FileKeys(pod.Files))
      /\ \A i \in 1..Len(pod.Containers) :
            /\ Distinct(MountKeys(pod.Containers[i].Volumes))
            /\ Distinct(EnvKeys(pod.Containers[i].Envs))
            /\ \A j \in 1..Len(pod.Containers[i].Files) : ~Dangling(pod, i, j)
            /\ \A j \in 1..Len(pod.Containers[i].Volumes) : ~DanglingMount(pod, i, j) ) =>
        IF \A i \in 1..Len(pod.Containers) :
              \A j \in 1..Len(pod.Containers[i].Files) :
                  PermAdmitted(pod.Containers[i].Files[j].Perm)
        THEN verr = NilError
        ELSE verr.msg = PermErr

\* C7: when Validate succeeds, the Volume names are pairwise distinct, the File
\* names are pairwise distinct, and in every container the volumeRefs are
\* pairwise distinct and catalogued, the env names are pairwise distinct and
\* every fileRef is catalogued.
C7_SuccessMeansWellFormed ==
    (Validated /\ verr = NilError) =>
        /\ Distinct(VolumeKeys(pod.Volumes))
        /\ Distinct(FileKeys(pod.Files))
        /\ \A i \in 1..Len(pod.Containers) :
            /\ Distinct(MountKeys(pod.Containers[i].Volumes))
            /\ \A j \in 1..Len(pod.Containers[i].Volumes) : ~DanglingMount(pod, i, j)
            /\ Distinct(EnvKeys(pod.Containers[i].Envs))
            /\ \A j \in 1..Len(pod.Containers[i].Files) : ~Dangling(pod, i, j)

C7_Witness ==
    /\ Validated
    /\ verr = NilError
    /\ Len(pod.Containers) = 1
    /\ Len(pod.Containers[1].Volumes) = 1
    /\ Len(pod.Containers[1].Files) = 1
    /\ Len(pod.Volumes) = 1
    /\ Len(pod.Files) = 1

\* C8 (as claimed): every failure of a per-container check carries the index of
\* the container in which the offence lies, and a dangling-reference failure
\* carries the missing key as well.
PerContainerErrs ==
    {MountNotUniqueErr, EnvNotUniqueErr, FileMissingErr, PermErr, VolumeMissingErr}
OffenceIn(p, i, msg) ==
    IF msg = MountNotUniqueErr THEN ~Distinct(MountKeys(p.Containers[i].Volumes))
    ELSE IF msg = EnvNotUniqueErr THEN ~Distinct(EnvKeys(p.Containers[i].Envs))
    ELSE IF msg = FileMissingErr
    THEN \E j \in 1..Len(p.Containers[i].Files) : Dangling(p, i, j)
    ELSE IF msg = PermErr
    THEN \E j \in 1..Len(p.Containers[i].Files) :
            ~PermAdmitted(p.Containers[i].Files[j].Perm)
    ELSE \E j \in 1..Len(p.Containers[i].Volumes) : DanglingMount(p, i, j)
C8_ErrorsCarryIndex ==
    (Validated /\ verr.msg \in PerContainerErrs) =>
        /\ Len(verr.args) >= 1
        /\ verr.args[1] \in 0..(Len(pod.Containers) - 1)
        /\ OffenceIn(pod, verr.args[1] + 1, verr.msg)
        /\ verr.msg = FileMissingErr =>
            (Len(verr.args) = 2 /\ verr.args[2] \notin FileNames(pod))
        /\ verr.msg = VolumeMissingErr =>
            (Len(verr.args) = 2 /\ verr.args[2] \notin VolumeNames(pod))

\* C9 (as claimed): the failure Validate returns is that of the earliest failing
\* check in the order: Volume names, File names, then per container in index
\* order volumeRef uniqueness, env uniqueness, per FileMount fileRef then perm,
\* volumeRef resolution; success only when no check fails.
FirstFileFailure(p, i) ==
    LET j == CHOOSE k \in 1..Len(p.Containers[i].Files) :
                /\ FileMountFails(p, i, k)
                /\ \A h \in 1..(k - 1) : ~FileMountFails(p, i, h)
    IN IF Dangling(p, i, j) THEN FileMissingErr ELSE PermErr
FirstContainerFailure(p, i) ==
    IF ~Distinct(MountKeys(p.Containers[i].Volumes)) THEN MountNotUniqueErr
    ELSE IF ~Distinct(EnvKeys(p.Containers[i].Envs)) THEN EnvNotUniqueErr
    ELSE IF \E j \in 1..Len(p.Containers[i].Files) : FileMountFails(p, i, j)
    THEN FirstFileFailure(p, i)
    ELSE VolumeMissingErr
EarliestFailure(p) ==
    IF ~Distinct(VolumeKeys(p.Volumes)) THEN [msg |-> VolumesNotUniqueErr, at |-> 0]
    ELSE IF ~Distinct(FileKeys(p.Files)) THEN [msg |-> FilesNotUniqueErr, at |-> 0]
    ELSE IF \E i \in 1..Len(p.Containers) : ContainerFails(p, i)
    THEN LET i == CHOOSE k \in 1..Len(p.Containers) :
                    /\ ContainerFails(p, k)
                    /\ \A h \in 1..(k - 1) : ~ContainerFails(p, h)
         IN [msg |-> FirstContainerFailure(p, i), at |-> i - 1]
    ELSE [msg |-> NilError.msg, at |-> 0]
C9_FailFastOrder ==
    Validated =>
        /\ verr.msg = EarliestFailure(pod).msg
        /\ verr.args # <<>> => verr.args[1] = EarliestFailure(pod).at

====
